---- MODULE Spec2Model ----
(***************************************************************************)
(* State-machine model of the SMTP honeypot: the shared rate limiter       *)
(* (ratelimiter.rs), the per-connection session (session.rs) and the       *)
(* connection handler with its command processor (honeypot.rs).            *)
(*                                                                         *)
(* Text is modelled character by character: a line is a sequence of        *)
(* one-character strings, so that trimming, splitting on whitespace,       *)
(* upper-casing and slicing are computed as the code computes them.        *)
(* An Option<T> is a sequence of length 0 (None) or 1 (Some).              *)
(***************************************************************************)
EXTENDS Naturals, Integers, Sequences, FiniteSets, TLC

\* ------------------------------------------------------------------ bounds
\* Number of connections the listeners accept in a behaviour of SpecAdmit.
MaxConns == 2
\* The clock stops advancing once it has reached this many seconds.
MaxTime == 61
\* Client lines the peers send in a behaviour.
MaxLines == 6
\* Body lines (other than the terminator) a peer sends for one message.
MaxBody == 2
\* Failed accept() calls a listener sees in a behaviour of SpecListen.
MaxAcceptErrors == 1

\* ------------------------------------------------------- program constants
\* Duration::from_secs(60), the eviction age of the rate limiter.
WindowSecs == 60
\* The implicit-TLS port and the two STARTTLS ports of handle_client.
PortSmtps == 465
PortSmtp == 25
PortSubmission == 587

\* ------------------------------------------------------------ environment
\* Seconds by which the clock may advance in one step: a time stamp taken
\* at 0 has age exactly 60 (kept) or 61 (evicted), one taken at 60 has age 1.
Advance == {60, 61}
IPs == {"10.0.0.1", "10.0.0.2"}
SrcPorts == {40001, 40002}
SocketAddrs == [ip : IPs, port : SrcPorts]
\* Listening ports that are neither 25, 465 nor 587.
OtherPorts == {2525}

None == <<>>
Some(x) == <<x>>
Conns == 1..MaxConns

VARIABLES
    opt,            \* Opt: the configuration, fixed after startup
    tls_acceptor,   \* SmtpHoneypot.tls_acceptor.is_some()
    listener,       \* per configured port: run_server's state, accept errors
    now,            \* the clock (seconds): Instant::now() and Local::now()
    connections,    \* RateLimiter.connections: SocketAddr -> VecDeque<Instant>
    lock,           \* holder of the tokio Mutex around the RateLimiter
    nconn,          \* connections accepted so far by the accept loops
    connsLeft,      \* connections the peers will still open
    peers,          \* the socket addresses the peers connect from
    vocab,          \* the lines the peers send
    linesLeft,      \* client lines the peers will still send
    pc,             \* position of each connection's handler task
    client_addr,    \* handle_client's client_addr
    port,           \* handle_client's port (the listening port)
    t_now,          \* check_and_add's local `now`
    stream,         \* the byte stream the handler reads and writes
    session,        \* the handler's SmtpSession, None before it is created
    files,          \* the data directory: file name -> content
    io,             \* what each connection has seen on the wire so far
    txn,            \* per connection: commands answered 250 since the last reset
    admitLog        \* every admission so far: <<address, time>>, in lock order

vars == <<opt, tls_acceptor, listener, now, connections, lock, nconn, connsLeft, peers,
          vocab,
          linesLeft, pc,
          client_addr, port, t_now, stream, session, files, io, txn, admitLog>>

cfgVars == <<opt, tls_acceptor, listener>>
envVars == <<nconn, connsLeft, peers, vocab, linesLeft>>
taskVars == <<client_addr, port, t_now, stream>>
limVars == <<connections, lock, admitLog>>
sessVars == <<session, files, txn>>

\* ------------------------------------------------------------------- text
Whitespace == {" ", "\t", "\r", "\n"}
LowerCase == <<"a","b","c","d","e","f","g","h","i","j","k","l","m",
               "n","o","p","q","r","s","t","u","v","w","x","y","z">>
UpperCase == <<"A","B","C","D","E","F","G","H","I","J","K","L","M",
               "N","O","P","Q","R","S","T","U","V","W","X","Y","Z">>

\* char::to_uppercase on the characters the model uses (ASCII).
UpperChar(ch) ==
    IF \E i \in 1..Len(LowerCase) : LowerCase[i] = ch
    THEN UpperCase[CHOOSE i \in 1..Len(LowerCase) : LowerCase[i] = ch]
    ELSE ch

\* str::to_uppercase
to_uppercase(s) == [i \in 1..Len(s) |-> UpperChar(s[i])]

\* str::starts_with
starts_with(s, prefix) ==
    /\ Len(s) >= Len(prefix)
    /\ SubSeq(s, 1, Len(prefix)) = prefix

\* &s[n..]: everything after the first n characters.
slice_from(s, n) == SubSeq(s, n + 1, Len(s))

\* str::trim_end: drop the trailing whitespace (the line terminator included).
RECURSIVE trim_end(_)
trim_end(s) ==
    IF s # <<>> /\ s[Len(s)] \in Whitespace
    THEN trim_end(SubSeq(s, 1, Len(s) - 1))
    ELSE s

\* str::trim_matches(ch): drop every leading and every trailing ch.
RECURSIVE trim_start_matches(_, _)
trim_start_matches(s, ch) ==
    IF s # <<>> /\ Head(s) = ch THEN trim_start_matches(Tail(s), ch) ELSE s

RECURSIVE trim_end_matches(_, _)
trim_end_matches(s, ch) ==
    IF s # <<>> /\ s[Len(s)] = ch
    THEN trim_end_matches(SubSeq(s, 1, Len(s) - 1), ch)
    ELSE s

trim_matches(s, ch) == trim_end_matches(trim_start_matches(s, ch), ch)

\* str::split_whitespace: the maximal runs of non-whitespace characters.
RECURSIVE SplitFrom(_, _, _)
SplitFrom(s, cur, acc) ==
    IF s = <<>>
    THEN IF cur = <<>> THEN acc ELSE Append(acc, cur)
    ELSE IF Head(s) \in Whitespace
         THEN SplitFrom(Tail(s), <<>>, IF cur = <<>> THEN acc ELSE Append(acc, cur))
         ELSE SplitFrom(Tail(s), Append(cur, Head(s)), acc)

split_whitespace(s) == SplitFrom(s, <<>>, <<>>)

\* str::split_once(ch): None, or Some(<<before, after>>) around the FIRST ch.
split_once(s, ch) ==
    IF \E i \in 1..Len(s) : s[i] = ch
    THEN LET i == CHOOSE k \in 1..Len(s) :
                      s[k] = ch /\ \A j \in 1..(k - 1) : s[j] # ch
         IN  Some(<<SubSeq(s, 1, i - 1), SubSeq(s, i + 1, Len(s))>>)
    ELSE None

CRLF == <<"\r", "\n">>

\* ------------------------------------------------------------ ratelimiter
\* Instant::duration_since: saturates at zero.
duration_since(t, earlier) == IF t >= earlier THEN t - earlier ELSE 0

\* A faulty age test: evicts a time stamp that is exactly one minute old.
Expired_AtSixty(t, time) == duration_since(t, time) >= WindowSecs

\* The age test of the eviction loop.
Expired(t, time) == duration_since(t, time) > WindowSecs

\* A faulty eviction loop: nothing is ever evicted.
evict_Never(entries, t) == entries

\* check_and_add, the eviction loop: pop the front while it is older than a
\* minute.
RECURSIVE evict(_, _)
evict(entries, t) ==
    IF entries # <<>> /\ Expired(t, Head(entries))
    THEN evict(Tail(entries), t)
    ELSE entries

\* check_and_add, the test that rejects: entries.len() >= self.max_per_minute
AtCapacity(entries) == Len(entries) >= opt.max_connections_per_minute

\* connections.entry(addr).or_insert_with(VecDeque::new)
entry(addr) == IF addr \in DOMAIN connections THEN connections[addr] ELSE <<>>

\* The map with the deque of addr replaced (the key is created when absent).
WithEntry(addr, entries) ==
    [a \in (DOMAIN connections) \cup {addr} |->
        IF a = addr THEN entries ELSE connections[a]]

\* ---------------------------------------------------------------- session
SmtpSession_new(addr, starttls_enabled) ==
    [client_addr      |-> addr,
     helo             |-> None,
     mail_from        |-> None,
     rcpt_to          |-> <<>>,
     data             |-> <<>>,
     authenticated    |-> FALSE,
     tls_active       |-> FALSE,
     starttls_enabled |-> starttls_enabled,
     expecting_data   |-> FALSE]

\* A faulty reset: forgets to clear the sender.
reset_KeepsMailFrom(s) ==
    [s EXCEPT !.rcpt_to = <<>>,
              !.data = <<>>,
              !.expecting_data = FALSE]

\* A faulty reset: clears the HELO name as reset_all does.
reset_ClearsHelo(s) ==
    [s EXCEPT !.helo = None,
              !.mail_from = None,
              !.rcpt_to = <<>>,
              !.data = <<>>,
              !.expecting_data = FALSE]

\* A faulty reset: the session is rebuilt and forgets that TLS is active.
reset_ClearsTls(s) ==
    [s EXCEPT !.mail_from = None,
              !.rcpt_to = <<>>,
              !.data = <<>>,
              !.expecting_data = FALSE,
              !.tls_active = FALSE]

reset(s) ==
    [s EXCEPT !.mail_from = None,
              !.rcpt_to = <<>>,
              !.data = <<>>,
              !.expecting_data = FALSE]

\* ------------------------------------------------------ command processor
\* One line of a response: "<code><sep><text>\r\n"; arg is the name a
\* greeting echoes, None elsewhere.
Reply(code, sep, text, arg) ==
    [code |-> code, sep |-> sep, text |-> text, arg |-> arg]
Resp(code, text) == <<Reply(code, " ", text, None)>>

\* resp.starts_with("<code>")
resp_starts_with(resp, code) == resp # <<>> /\ resp[1].code = code

\* A faulty policy: the open-relay switch is ignored.
is_valid_recipient_IgnoresRelay(recipient) ==
    IF \E mb \in opt.valid_mailboxes : mb = recipient THEN TRUE
    ELSE LET sp == split_once(recipient, "@")
         IN  /\ sp # None
             /\ \E d \in opt.domains : d = sp[1][2]

is_valid_recipient(recipient) ==
    IF opt.open_relay THEN TRUE
    ELSE IF \E mb \in opt.valid_mailboxes : mb = recipient THEN TRUE
    ELSE LET sp == split_once(recipient, "@")
         IN  /\ sp # None
             /\ \E d \in opt.domains : d = sp[1][2]

\* The test of the HELO/EHLO arm that appends "250-STARTTLS".
AdvertiseStartTls(s) ==
    s.starttls_enabled /\ ~s.tls_active /\ tls_acceptor

\* A faulty test: answers 220 whenever a certificate is configured.
StartTlsReady_CertOnly(s) == tls_acceptor

\* The test of the STARTTLS arm that answers 220.
StartTlsReady(s) ==
    s.starttls_enabled /\ tls_acceptor /\ ~s.tls_active

S_FROM == <<"F","R","O","M",":">>
S_TO == <<"T","O",":">>
S_HELO == <<"H","E","L","O">>
S_EHLO == <<"E","H","L","O">>
S_STARTTLS == <<"S","T","A","R","T","T","L","S">>
S_MAIL == <<"M","A","I","L">>
S_RCPT == <<"R","C","P","T">>
S_DATA == <<"D","A","T","A">>
S_AUTH == <<"A","U","T","H">>
S_LOGIN == <<"L","O","G","I","N">>
S_QUIT == <<"Q","U","I","T">>
S_RSET == <<"R","S","E","T">>
S_NOOP == <<"N","O","O","P">>
S_VRFY == <<"V","R","F","Y">>
S_EXPN == <<"E","X","P","N">>
S_unknown == <<"u","n","k","n","o","w","n">>

\* A faulty MAIL arm: a new sender starts a new transaction and drops the
\* recipients accepted so far.
set_mail_from_ClearsRcpt(s, from) ==
    [s EXCEPT !.mail_from = Some(from), !.rcpt_to = <<>>]

\* The MAIL arm's assignment: session.mail_from = Some(from).
set_mail_from(s, from) == [s EXCEPT !.mail_from = Some(from)]

\* A faulty AUTH arm: the mechanism is compared case-sensitively.
auth_reply_CaseSensitive(parts) ==
    IF Len(parts) >= 2 /\ parts[2] = S_LOGIN
    THEN Resp("334", "VXNlcm5hbWU6")
    ELSE IF Len(parts) = 1
    THEN Resp("504", "Unrecognized authentication type")
    ELSE Resp("235", "Authentication successful")

\* The response of process_command's AUTH arm.
auth_reply(parts) ==
    IF Len(parts) >= 2 /\ to_uppercase(parts[2]) = S_LOGIN
    THEN Resp("334", "VXNlcm5hbWU6")
    ELSE IF Len(parts) = 1
    THEN Resp("504", "Unrecognized authentication type")
    ELSE Resp("235", "Authentication successful")

\* The command keyword process_command dispatches on: parts[0].to_uppercase(),
\* None for a line without a token.
Keyword(cmd_line) ==
    LET parts == split_whitespace(cmd_line)
    IN  IF parts = <<>> THEN None ELSE Some(to_uppercase(parts[1]))

\* process_command: the response and the session after it.
process_command(cmd_line, s) ==
    LET parts == split_whitespace(cmd_line)
        Out(resp, s2) == [resp |-> resp, session |-> s2]
    IN
    IF parts = <<>> THEN Out(Resp("500", "Syntax error"), s)
    ELSE LET cmd == to_uppercase(parts[1]) IN
    CASE cmd \in {S_HELO, S_EHLO} ->
            LET helo_name == IF Len(parts) >= 2 THEN parts[2] ELSE S_unknown
                s2 == [s EXCEPT !.helo = Some(helo_name)]
            IN  Out(<<Reply("250", "-", "Hello", Some(helo_name))>>
                    \o (IF AdvertiseStartTls(s2)
                        THEN <<Reply("250", "-", "STARTTLS", None)>>
                        ELSE <<>>)
                    \o <<Reply("250", " ", "HELP", None)>>,
                    s2)
      [] cmd = S_STARTTLS ->
            IF StartTlsReady(s)
            THEN Out(Resp("220", "Ready to start TLS"), s)
            ELSE Out(Resp("454", "TLS not available"), s)
      [] cmd = S_MAIL ->
            IF Len(parts) < 2 \/ ~starts_with(to_uppercase(parts[2]), S_FROM)
            THEN Out(Resp("501", "Syntax error in parameters"), s)
            ELSE LET from == trim_matches(trim_matches(slice_from(parts[2], 5), "<"), ">")
                 IN  Out(Resp("250", "OK"), set_mail_from(s, from))
      [] cmd = S_RCPT ->
            IF Len(parts) < 2 \/ ~starts_with(to_uppercase(parts[2]), S_TO)
            THEN Out(Resp("501", "Syntax error in parameters"), s)
            ELSE LET to == trim_matches(trim_matches(slice_from(parts[2], 3), "<"), ">")
                 IN  IF is_valid_recipient(to)
                     THEN Out(Resp("250", "OK"),
                              [s EXCEPT !.rcpt_to = Append(@, to)])
                     ELSE Out(Resp("550", "No such user"), s)
      [] cmd = S_DATA ->
            IF s.mail_from = None \/ s.rcpt_to = <<>>
            THEN Out(Resp("503", "Bad sequence of commands"), s)
            ELSE Out(Resp("354", "Start mail input; end with <CRLF>.<CRLF>"), s)
      [] cmd = S_AUTH -> Out(auth_reply(parts), s)
      [] cmd = S_QUIT -> Out(Resp("221", "Bye"), s)
      [] cmd = S_RSET -> Out(Resp("250", "OK"), reset(s))
      [] cmd = S_NOOP -> Out(Resp("250", "OK"), s)
      [] cmd \in {S_VRFY, S_EXPN} -> Out(Resp("252", "Cannot verify user"), s)
      [] OTHER -> Out(Resp("500", "Command not recognized"), s)

\* ------------------------------------------------------------ persistence
\* A faulty join: the strings are concatenated without the separator.
join_Concat(strs, sep) ==
    LET F[i \in 0..Len(strs)] == IF i = 0 THEN <<>> ELSE F[i - 1] \o strs[i]
    IN  F[Len(strs)]

\* [String].join(sep)
RECURSIVE join(_, _)
join(strs, sep) ==
    IF strs = <<>> THEN <<>>
    ELSE IF Len(strs) = 1 THEN strs[1]
    ELSE strs[1] \o sep \o join(Tail(strs), sep)

\* save_email_data's file name: "<%Y%m%d_%H%M%S>_<ip with '.' as '_'>.eml";
\* the clock counts seconds, so the time stamp is the clock.
email_filename(addr) == <<now, addr.ip>>

\* save_email_data's file content: the X-Honeypot-* header lines, a blank
\* line, then the body lines joined by CRLF.
email_content(addr, s) ==
    [client    |-> addr,
     date      |-> now,
     helo      |-> s.helo,
     mail_from |-> s.mail_from,
     rcpt_to   |-> s.rcpt_to,
     body      |-> join(s.data, CRLF)]

\* save_email_data: the data directory after the call; fs_ok is whether
\* tokio::fs::write succeeds. Nothing is written without a data directory.
save_email_data(addr, s, fs_ok) ==
    IF opt.data_dir /\ fs_ok
    THEN LET name == email_filename(addr)
         IN  [f \in (DOMAIN files) \cup {name} |->
                 IF f = name THEN email_content(addr, s) ELSE files[f]]
    ELSE files

\* ---------------------------------------------------------- client input
SP == <<" ">>
L_EHLO == S_EHLO \o SP \o <<"x">> \o CRLF
L_STARTTLS == S_STARTTLS \o CRLF
L_MAIL == S_MAIL \o SP \o S_FROM \o <<"<","a","@","b",">">> \o CRLF
L_RCPT == S_RCPT \o SP \o S_TO \o <<"<","c","@","d",">">> \o CRLF
L_rcpt_other == <<"r","c","p","t">> \o SP \o <<"t","o",":">>
                \o <<"<","n","@","o",">">> \o CRLF
L_DATA == S_DATA \o CRLF
L_RSET == S_RSET \o CRLF
L_QUIT == S_QUIT \o CRLF
L_DOT == <<".">> \o CRLF
L_text == <<"h","i">> \o CRLF
\* A dot and a text line that carry trailing whitespace, an empty line and
\* a MAIL without its FROM: parameter.
L_DOT_sp == <<".">> \o SP \o CRLF
L_text_sp == <<"h","i">> \o SP \o CRLF
L_empty == CRLF
L_MAIL_bad == S_MAIL \o CRLF

\* The lines a client may send.
Lines == {L_EHLO, L_STARTTLS, L_MAIL, L_RCPT, L_rcpt_other, L_DATA, L_RSET,
          L_QUIT, L_DOT, L_text, L_DOT_sp, L_text_sp, L_empty, L_MAIL_bad}

\* RCPT lines for the recipient policy: an address with two '@' whose last
\* part is the accepted domain, an address without '@', and a RCPT without
\* its TO: parameter.
L_rcpt_multi == S_RCPT \o SP \o S_TO \o <<"<","x","@","y","@","d",">">> \o CRLF
L_rcpt_local == S_RCPT \o SP \o S_TO \o <<"<","m",">">> \o CRLF
L_rcpt_bad == S_RCPT \o SP \o <<"c","@","d">> \o CRLF
RcptLines == {L_RCPT, L_rcpt_other, L_rcpt_multi, L_rcpt_local, L_rcpt_bad}

\* Lines for the commands that leave the transaction alone: AUTH bare, with
\* LOGIN in lower case and with another mechanism, NOOP, VRFY, and a MAIL
\* with another sender.
L_auth_bare == S_AUTH \o CRLF
L_auth_login == <<"a","u","t","h">> \o SP \o <<"l","o","g","i","n">> \o CRLF
L_auth_plain == S_AUTH \o SP \o <<"P","L","A","I","N">> \o SP \o <<"x">> \o CRLF
L_NOOP == S_NOOP \o CRLF
L_VRFY == S_VRFY \o SP \o <<"c">> \o CRLF
L_MAIL_other == S_MAIL \o SP \o S_FROM \o <<"<","e","@","f",">">> \o CRLF
CmdLines == {L_EHLO, L_MAIL, L_MAIL_other, L_RCPT, L_rcpt_other, L_rcpt_bad,
             L_auth_bare, L_auth_login, L_auth_plain, L_NOOP, L_VRFY,
             L_STARTTLS, L_RSET}

\* Lines around an AUTH LOGIN exchange: the command in upper case, the
\* base64 user name and password a real client sends after the 334 prompt
\* ("dXNlcg==", "cGFzcw=="), and two base64 texts whose first token reads as
\* a command keyword ("NOOP", "Quit").
L_AUTH_LOGIN == S_AUTH \o SP \o S_LOGIN \o CRLF
L_b64_user == <<"d","X","N","l","c","g","=","=">> \o CRLF
L_b64_pass == <<"c","G","F","z","c","w","=","=">> \o CRLF
L_b64_quit == <<"Q","u","i","t">> \o CRLF
AuthLines == {L_auth_login, L_AUTH_LOGIN, L_auth_plain, L_b64_user, L_b64_pass,
              L_NOOP, L_b64_quit, L_empty, L_EHLO, L_MAIL, L_RCPT, L_DATA,
              L_text}

\* Every line of the model.
AllLines == Lines \cup RcptLines \cup CmdLines \cup AuthLines

\* read_line's other outcomes: Ok(0) and Err(e).
ReadEof == <<"Ok(0)">>
ReadErr == <<"Err">>

\* The accepted domain and the configurations a behaviour may start from.
Domain_d == <<"d">>
\* Mailboxes a configuration may list: one without '@' and one in a domain
\* that is not accepted.
Mailbox_m == <<"m">>
Mailbox_n_o == <<"n","@","o">>

\* ------------------------------------------------------------ wire ghosts
\* verdict: check_and_add's answer; checks: how many answers the connection
\* got; writes / reads: responses written and lines read; banner: the 220
\* greeting was written; handshakes: TLS handshakes attempted; last_line,
\* last_resp: the last read and the response written to it; before: the
\* session as it was when the last line was read; exit: how the task ended;
\* saved: the file the last line made save_email_data write; saves: how
\* many files the connection's messages were written to; capture: a 354
\* was written and no line that is exactly "." has been read since;
\* silent: how many lines were stored as body lines; prompted: the last line
\* read came right after a written response that starts with 334.
NoIo == [verdict |-> "undecided", checks |-> 0, writes |-> 0, banner |-> FALSE,
         handshakes |-> 0, reads |-> 0, last_line |-> None, last_resp |-> None,
         before |-> None, exit |-> "running", saved |-> None, saves |-> 0,
         capture |-> FALSE, silent |-> 0, prompted |-> FALSE]
NoTxn == [mail |-> FALSE, rcpt |-> FALSE]

\* A response handed to the socket: counted and remembered when the write
\* succeeds.
Wrote(i, resp, wok) ==
    IF wok THEN [i EXCEPT !.writes = @ + 1, !.last_resp = Some(resp)] ELSE i

\* ------------------------------------------------------------------- Init
AllPorts == {PortSmtp, PortSmtps, PortSubmission} \cup OtherPorts

\* run_server per configured port: every listener bound and accepting, and
\* every listener still before its bind.
AllBound == [p \in opt.ports |-> [state |-> "listening", errors |-> 0]]
NoneBound == [p \in opt.ports |-> [state |-> "starting", errors |-> 0]]

InitState ==
    /\ now = 0
    /\ connections = [a \in {} |-> <<>>]
    /\ lock = None
    /\ nconn = 0
    /\ pc = [c \in Conns |-> "unborn"]
    /\ client_addr = [c \in Conns |-> None]
    /\ port = [c \in Conns |-> None]
    /\ t_now = [c \in Conns |-> 0]
    /\ stream = [c \in Conns |-> "none"]
    /\ session = [c \in Conns |-> None]
    /\ files = [f \in {} |-> <<>>]
    /\ io = [c \in Conns |-> NoIo]
    /\ txn = [c \in Conns |-> NoTxn]
    /\ admitLog = <<>>

\* One connection, on any port, under every STARTTLS / certificate setting,
\* with a cap that admits it (1) or turns it away (0).
Init ==
    /\ opt \in [max_connections_per_minute : {0, 1},
                starttls : BOOLEAN,
                open_relay : {FALSE},
                domains : {{Domain_d}},
                valid_mailboxes : {{}},
                data_dir : {TRUE},
                ports : {AllPorts}]
    /\ tls_acceptor \in BOOLEAN
    /\ connsLeft = 1
    /\ peers = {[ip |-> "10.0.0.1", port |-> 40001]}
    /\ vocab = Lines
    /\ linesLeft = MaxLines
    /\ listener = AllBound
    /\ InitState

\* Several connections from one IP racing for the rate limiter, under caps
\* 0, 1 and 2; the peers send nothing but QUIT.
InitAdmit ==
    /\ opt \in [max_connections_per_minute : 0..2,
                starttls : {FALSE},
                open_relay : {FALSE},
                domains : {{Domain_d}},
                valid_mailboxes : {{}},
                data_dir : {TRUE},
                ports : {{PortSmtp, PortSmtps}}]
    /\ tls_acceptor = TRUE
    /\ connsLeft = MaxConns
    /\ peers = {a \in SocketAddrs : a.ip = "10.0.0.1"}
    /\ vocab = {L_QUIT}
    /\ linesLeft = MaxLines
    /\ listener = AllBound
    /\ InitState

\* One connection that sends RCPT lines only, with open relay on and off,
\* with and without listed mailboxes; the accepted domain is "d".
InitRcpt ==
    /\ opt \in [max_connections_per_minute : {0, 1},
                starttls : {FALSE},
                open_relay : BOOLEAN,
                domains : {{Domain_d}},
                valid_mailboxes : {{}, {Mailbox_m, Mailbox_n_o}},
                data_dir : {TRUE},
                ports : {{PortSmtp, PortSmtps}}]
    /\ tls_acceptor = TRUE
    /\ connsLeft = 1
    /\ peers = {[ip |-> "10.0.0.1", port |-> 40001]}
    /\ vocab = RcptLines
    /\ linesLeft = MaxLines
    /\ listener = AllBound
    /\ InitState

\* One connection, plaintext or implicit TLS, whose peer attempts AUTH LOGIN
\* and sends credentials, commands and a message.
InitAuth ==
    /\ opt \in [max_connections_per_minute : {0, 1},
                starttls : {FALSE},
                open_relay : {TRUE},
                domains : {{Domain_d}},
                valid_mailboxes : {{}},
                data_dir : {FALSE},
                ports : {{PortSmtp, PortSmtps}}]
    /\ tls_acceptor = TRUE
    /\ connsLeft = 1
    /\ peers = {[ip |-> "10.0.0.1", port |-> 40001]}
    /\ vocab = AuthLines
    /\ linesLeft = MaxLines
    /\ listener = AllBound
    /\ InitState

\* One connection, plaintext or implicit TLS, that sends commands but never
\* DATA.
InitCmd ==
    /\ opt \in [max_connections_per_minute : {0, 1},
                starttls : {FALSE},
                open_relay : {FALSE},
                domains : {{Domain_d}},
                valid_mailboxes : {{}},
                data_dir : {TRUE},
                ports : {{PortSmtp, PortSmtps}}]
    /\ tls_acceptor = TRUE
    /\ connsLeft = 1
    /\ peers = {[ip |-> "10.0.0.1", port |-> 40001]}
    /\ vocab = CmdLines
    /\ linesLeft = MaxLines
    /\ listener = AllBound
    /\ InitState

\* One connection that sends the lines of a message (MAIL, RCPT, DATA, the
\* lone dot), enough of them for two messages, while the clock may advance,
\* with and without a data directory.
SaveLines == {L_MAIL, L_RCPT, L_DATA, L_DOT}

InitSave ==
    /\ opt \in [max_connections_per_minute : {0, 1},
                starttls : {FALSE},
                open_relay : {FALSE},
                domains : {{Domain_d}},
                valid_mailboxes : {{}},
                data_dir : BOOLEAN,
                ports : {{PortSmtp, PortSmtps}}]
    /\ tls_acceptor = TRUE
    /\ connsLeft = 1
    /\ peers = {[ip |-> "10.0.0.1", port |-> 40001]}
    /\ vocab = SaveLines
    /\ linesLeft = 2 * Cardinality(SaveLines)
    /\ listener = AllBound
    /\ InitState

\* Two ports whose binds may succeed or fail and whose accepts may fail,
\* with connections from one peer that sends nothing but QUIT.
InitListen ==
    /\ opt \in [max_connections_per_minute : {0, MaxConns},
                starttls : {FALSE},
                open_relay : {FALSE},
                domains : {{Domain_d}},
                valid_mailboxes : {{}},
                data_dir : {TRUE},
                ports : {{PortSmtp, PortSmtps}}]
    /\ tls_acceptor = TRUE
    /\ connsLeft = MaxConns
    /\ peers = {[ip |-> "10.0.0.1", port |-> 40001]}
    /\ vocab = {L_QUIT}
    /\ linesLeft = MaxLines
    /\ listener = NoneBound
    /\ InitState

\* ---------------------------------------------------------------- actions
Live(c) == pc[c] \notin {"unborn", "closed"}

\* A faulty accept loop: an Err returned by a handler ends the loop.
ListenerAlive_StopsOnError == \A c \in Conns : io[c].exit # "err"

\* run_server's accept loop has no exit: a handler runs in a task of its
\* own, the Err it returns is logged inside that task, and an accept error
\* is logged too.
ListenerAlive == TRUE

\* A faulty start: one port that fails to bind stops every listener.
ListenerUp_AllOrNothing(p) ==
    /\ listener[p].state = "listening"
    /\ \A q \in opt.ports : listener[q].state # "failed"

\* run_server(port) has bound its socket and is in its accept loop.
ListenerUp(p) == listener[p].state = "listening"

\* run_server up to its loop: TcpListener::bind; a failure returns Err from
\* run_server, which run's task for that port prints before it ends.
run_server(p, ok) ==
    /\ p \in opt.ports
    /\ listener[p].state = "starting"
    /\ listener' = [listener EXCEPT ![p].state =
                        IF ok THEN "listening" ELSE "failed"]
    /\ UNCHANGED <<opt, tls_acceptor, now, limVars, envVars, pc, taskVars,
                   sessVars, io>>

\* run_server's loop, the Err arm of listener.accept(): the error is logged
\* and the loop goes on.
accept_error(p) ==
    /\ p \in opt.ports
    /\ ListenerUp(p)
    /\ listener[p].errors < MaxAcceptErrors
    /\ listener' = [listener EXCEPT ![p].errors = @ + 1]
    /\ UNCHANGED <<opt, tls_acceptor, now, limVars, envVars, pc, taskVars,
                   sessVars, io>>

\* run_server: listener.accept() hands the stream, the peer address and the
\* listening port to a new handle_client task. Two live connections never
\* share both the peer address and the listening port.
accept(c, addr, p) ==
    /\ ListenerAlive
    /\ connsLeft > 0
    /\ c = nconn + 1
    /\ c \in Conns
    /\ addr \in peers
    /\ p \in opt.ports
    /\ ListenerUp(p)
    /\ \A c2 \in Conns :
          Live(c2) => ~(client_addr[c2] = Some(addr) /\ port[c2] = Some(p))
    /\ nconn' = c
    /\ connsLeft' = connsLeft - 1
    /\ pc' = [pc EXCEPT ![c] = "lock"]
    /\ client_addr' = [client_addr EXCEPT ![c] = Some(addr)]
    /\ port' = [port EXCEPT ![c] = Some(p)]
    /\ stream' = [stream EXCEPT ![c] = "plain"]
    /\ UNCHANGED <<cfgVars, now, limVars, peers, vocab, linesLeft, t_now, sessVars, io>>

\* A faulty lock: no mutual exclusion around the rate limiter.
LockAvailable_Always == TRUE

\* The tokio Mutex grants the lock only when nobody holds it.
LockAvailable == lock = None

\* handle_client: self.rate_limiter.lock().await
lock_acquire(c) ==
    /\ pc[c] = "lock"
    /\ LockAvailable
    /\ lock' = Some(c)
    /\ pc' = [pc EXCEPT ![c] = "evict"]
    /\ UNCHANGED <<cfgVars, now, connections, admitLog, envVars, taskVars,
                   sessVars, io>>

\* check_and_add: read the clock, find or create the deque, evict.
check_evict(c) ==
    /\ pc[c] = "evict"
    /\ LET addr == client_addr[c][1]
       IN  connections' = WithEntry(addr, evict(entry(addr), now))
    /\ t_now' = [t_now EXCEPT ![c] = now]
    /\ pc' = [pc EXCEPT ![c] = "decide"]
    /\ UNCHANGED <<cfgVars, now, lock, admitLog, envVars, client_addr, port,
                   stream, sessVars, io>>

\* A faulty capacity test: a rejected attempt is recorded as well.
check_decide_RecordsReject(c) ==
    /\ pc[c] = "decide"
    /\ LET addr == client_addr[c][1]
           full == AtCapacity(entry(addr))
       IN  /\ pc' = [pc EXCEPT ![c] = IF full THEN "reject" ELSE "push"]
           /\ io' = [io EXCEPT ![c] =
                       [@ EXCEPT !.verdict = IF full THEN "rejected" ELSE "admitted",
                                 !.checks = @ + 1]]
           /\ connections' = IF full
                              THEN WithEntry(addr, Append(entry(addr), t_now[c]))
                              ELSE connections
    /\ UNCHANGED <<cfgVars, now, lock, admitLog, envVars, taskVars, sessVars>>

\* check_and_add: the capacity test; false sends handle_client to its
\* rejection branch with the lock still held.
check_decide(c) ==
    /\ pc[c] = "decide"
    /\ LET full == AtCapacity(entry(client_addr[c][1]))
       IN  /\ pc' = [pc EXCEPT ![c] = IF full THEN "reject" ELSE "push"]
           /\ io' = [io EXCEPT ![c] =
                       [@ EXCEPT !.verdict = IF full THEN "rejected" ELSE "admitted",
                                 !.checks = @ + 1]]
    /\ UNCHANGED <<cfgVars, now, limVars, envVars, taskVars, sessVars>>

\* A faulty choice: port 465 is served like every other port.
ModeAfterAdmit_AlwaysPlain(p) == "plain_banner"

\* handle_client's choice of stream handler for an admitted connection:
\* a TLS handshake first on port 465 with a certificate, plaintext otherwise.
ModeAfterAdmit(p) ==
    IF p = PortSmtps /\ tls_acceptor THEN "handshake" ELSE "plain_banner"

\* check_and_add returning true: entries.push_back(now); the guard is
\* dropped at the end of handle_client's block.
check_push(c) ==
    /\ pc[c] = "push"
    /\ LET addr == client_addr[c][1]
       IN  /\ connections' = WithEntry(addr, Append(entry(addr), t_now[c]))
           /\ admitLog' = Append(admitLog, <<addr, t_now[c]>>)
    /\ lock' = None
    /\ pc' = [pc EXCEPT ![c] = ModeAfterAdmit(port[c][1])]
    /\ UNCHANGED <<cfgVars, now, envVars, taskVars, sessVars, io>>

\* A faulty rejection branch: it falls through to the plaintext handler.
AfterReject_FallsThrough == "plain_banner"

\* Where handle_client's rejection branch leaves the task: return Ok(()).
AfterReject == "closed"

\* handle_client's rejection branch: log, stream.writable(), one try_write
\* of the 421 line (which may fail), return; the guard is dropped on return.
reject_write(c, wok) ==
    /\ pc[c] = "reject"
    /\ io' = [io EXCEPT ![c] =
                [Wrote(@, Resp("421", "Too many connections from your IP"), wok)
                    EXCEPT !.exit = "ok"]]
    /\ lock' = None
    /\ pc' = [pc EXCEPT ![c] = AfterReject]
    /\ UNCHANGED <<cfgVars, now, connections, admitLog, envVars, taskVars,
                   sessVars>>

\* A faulty handshake step: after a failed handshake the connection is
\* served in plaintext.
tls_handshake_FallsBack(c, ok) ==
    /\ pc[c] = "handshake"
    /\ io' = [io EXCEPT ![c] = [@ EXCEPT !.handshakes = @ + 1]]
    /\ stream' = [stream EXCEPT ![c] = IF ok THEN "tls" ELSE @]
    /\ pc' = [pc EXCEPT ![c] = IF ok THEN "tls_banner" ELSE "plain_banner"]
    /\ UNCHANGED <<cfgVars, now, limVars, envVars, client_addr, port, t_now,
                   sessVars>>

\* handle_client, port 465: acceptor.accept(stream).await. A failed
\* handshake is logged and the handler returns Ok(()).
tls_handshake(c, ok) ==
    /\ pc[c] = "handshake"
    /\ io' = [io EXCEPT ![c] =
                [@ EXCEPT !.handshakes = @ + 1,
                          !.exit = IF ok THEN @ ELSE "ok"]]
    /\ stream' = [stream EXCEPT ![c] = IF ok THEN "tls" ELSE @]
    /\ pc' = [pc EXCEPT ![c] = IF ok THEN "tls_banner" ELSE "closed"]
    /\ UNCHANGED <<cfgVars, now, limVars, envVars, client_addr, port, t_now,
                   sessVars>>

\* The session the stream handlers construct after the banner:
\* SmtpSession::new(client_addr, false), tls_active set by handle_tls_stream.
NewSession(addr, tls) ==
    [SmtpSession_new(addr, FALSE) EXCEPT !.tls_active = tls]

\* A faulty handler head: the session is constructed and the loop entered
\* without the greeting being written.
Banner_NoGreeting(c, tls, wok) ==
    /\ session' = [session EXCEPT ![c] =
                     Some(NewSession(client_addr[c][1], tls))]
    /\ pc' = [pc EXCEPT ![c] = "loop"]
    /\ UNCHANGED <<cfgVars, now, limVars, envVars, taskVars, files, txn, io>>

\* The head of a stream handler: write the 220 banner (an error ends the
\* handler with Err), then construct the session.
Banner(c, tls, wok) ==
    /\ io' = [io EXCEPT ![c] =
                [Wrote(@, Resp("220", IF tls THEN "SMTP Honeypot (TLS)"
                                             ELSE "SMTP Honeypot"), wok)
                    EXCEPT !.banner = wok,
                           !.exit = IF wok THEN @ ELSE "err"]]
    /\ session' = [session EXCEPT ![c] =
                     IF wok THEN Some(NewSession(client_addr[c][1], tls)) ELSE @]
    /\ pc' = [pc EXCEPT ![c] = IF wok THEN "loop" ELSE "closed"]
    /\ UNCHANGED <<cfgVars, now, limVars, envVars, taskVars, files, txn>>

\* handle_plain_stream up to its loop (the optional banner delay is a sleep
\* that changes no state).
plain_banner(c, wok) ==
    /\ pc[c] = "plain_banner"
    /\ Banner(c, FALSE, wok)

\* handle_tls_stream up to its loop.
tls_banner(c, wok) ==
    /\ pc[c] = "tls_banner"
    /\ Banner(c, TRUE, wok)

\* A faulty loop exit: any 5xx response ends the connection as well.
ClosesAfter_AnyError(resp) ==
    resp # <<>> /\ resp[1].code \in {"221", "500", "501", "503", "550"}

\* A faulty loop exit: no response ends the connection.
ClosesAfter_Never(resp) == FALSE

\* The loop's exit test after a response was written:
\* resp.starts_with("221").
ClosesAfter(resp) == resp_starts_with(resp, "221")

\* A faulty loop: the 334 prompt of AUTH LOGIN opens an exchange too, and the
\* next line is taken as input instead of being dispatched.
StartsBody_AnyPrompt(resp) ==
    resp_starts_with(resp, "354") \/ resp_starts_with(resp, "334")

\* The response after which the loop sets session.expecting_data: the one
\* that starts with "354", and no other.
StartsBody(resp) == resp_starts_with(resp, "354")

\* A faulty terminator branch: an Err from save_email_data is propagated
\* and ends the handler.
AfterTerminator_SaveFatal(saved, wok) ==
    IF saved /\ wok THEN "loop" ELSE "closed"

\* Where the terminator branch leaves the handler: the result of
\* save_email_data (saved) is only logged; a failed write of the 250 line
\* ends the handler.
AfterTerminator(saved, wok) == IF wok THEN "loop" ELSE "closed"

\* The transaction ghost after a dispatched command and its response.
TxnAfter(t, cmd_line, resp) ==
    LET kw == Keyword(cmd_line)
        ok == resp_starts_with(resp, "250")
    IN  IF kw = Some(S_RSET) /\ ok THEN NoTxn
        ELSE IF kw = Some(S_MAIL) /\ ok THEN [t EXCEPT !.mail = TRUE]
        ELSE IF kw = Some(S_RCPT) /\ ok THEN [t EXCEPT !.rcpt = TRUE]
        ELSE t

\* One turn of a stream handler's loop on a line read from the peer:
\* body capture while expecting_data, command dispatch otherwise. wok is
\* whether the write of the response succeeds, fs_ok whether the file write
\* of save_email_data does. A peer sends at most MaxBody lines of body.
LoopLine(c, line) ==
    LET s == session[c][1]
        cmd_line == trim_end(line)
        seen == [io[c] EXCEPT !.reads = @ + 1, !.last_line = Some(line),
                              !.last_resp = None, !.before = session[c],
                              !.saved = None,
                              !.capture = IF line = <<".">> \o CRLF
                                          THEN FALSE ELSE @,
                              !.silent = IF s.expecting_data
                                            /\ cmd_line # <<".">>
                                         THEN @ + 1 ELSE @,
                              !.prompted = /\ io[c].last_resp # None
                                           /\ resp_starts_with(io[c].last_resp[1],
                                                               "334")]
    IN
    IF s.expecting_data
    THEN IF cmd_line = <<".">>
         THEN LET s1 == [s EXCEPT !.expecting_data = FALSE]
              IN  \E wok \in BOOLEAN, fs_ok \in BOOLEAN :
                  /\ files' = save_email_data(client_addr[c][1], s1, fs_ok)
                  /\ session' = [session EXCEPT ![c] = Some(reset(s1))]
                  /\ txn' = [txn EXCEPT ![c] = NoTxn]
                  /\ io' = [io EXCEPT ![c] =
                             [Wrote(seen, Resp("250", "OK: Message accepted"), wok)
                                 EXCEPT !.exit = IF wok THEN @ ELSE "err",
                                        !.saved = IF opt.data_dir /\ fs_ok
                                                  THEN Some(email_filename(client_addr[c][1]))
                                                  ELSE @,
                                        !.saves = IF opt.data_dir /\ fs_ok
                                                  THEN @ + 1 ELSE @]]
                  /\ pc' = [pc EXCEPT ![c] =
                             AfterTerminator(~opt.data_dir \/ fs_ok, wok)]
         ELSE /\ Len(s.data) < MaxBody
              /\ session' = [session EXCEPT ![c] =
                               Some([s EXCEPT !.data = Append(@, cmd_line)])]
              /\ io' = [io EXCEPT ![c] = seen]
              /\ UNCHANGED <<files, txn, pc>>
    ELSE LET r == process_command(cmd_line, s)
             quit == ClosesAfter(r.resp)
             data == StartsBody(r.resp)
         IN  \E wok \in BOOLEAN :
             /\ session' = [session EXCEPT ![c] =
                              Some(IF wok /\ ~quit /\ data
                                   THEN [r.session EXCEPT !.expecting_data = TRUE]
                                   ELSE r.session)]
             /\ txn' = [txn EXCEPT ![c] = TxnAfter(@, cmd_line, r.resp)]
             /\ io' = [io EXCEPT ![c] =
                         [Wrote(seen, r.resp, wok)
                             EXCEPT !.exit = IF ~wok THEN "err"
                                             ELSE IF quit THEN "ok" ELSE @,
                                    !.capture = IF wok /\ data THEN TRUE ELSE @]]
             /\ pc' = [pc EXCEPT ![c] = IF ~wok \/ quit THEN "closed" ELSE "loop"]
             /\ UNCHANGED files

\* One turn of the loop of handle_plain_stream / handle_tls_stream:
\* reader.read_line(): Ok(0) and Err(e) break out of the loop and the
\* handler returns Ok(()).
LoopTurn(c, r) ==
    /\ pc[c] = "loop"
    /\ IF r \in {ReadEof, ReadErr}
       THEN /\ pc' = [pc EXCEPT ![c] = "closed"]
            /\ io' = [io EXCEPT ![c] = [@ EXCEPT !.exit = "ok",
                                                 !.last_line = Some(r),
                                                 !.last_resp = None,
                                                 !.before = session[c]]]
            /\ UNCHANGED <<sessVars, linesLeft>>
       ELSE /\ r \in vocab
            /\ linesLeft > 0
            /\ linesLeft' = linesLeft - 1
            /\ LoopLine(c, r)
    /\ UNCHANGED <<cfgVars, now, limVars, nconn, connsLeft, peers, vocab, taskVars>>

handle_plain_stream(c, r) ==
    /\ stream[c] = "plain"
    /\ LoopTurn(c, r)

handle_tls_stream(c, r) ==
    /\ stream[c] = "tls"
    /\ LoopTurn(c, r)

\* The clock advances.
Tick(d) ==
    /\ now + d <= MaxTime
    /\ now' = now + d
    /\ UNCHANGED <<cfgVars, limVars, envVars, pc, taskVars, sessVars, io>>

\* ---------------------------------------------------------- specifications
Serve ==
    \/ \E c \in Conns, addr \in SocketAddrs, p \in AllPorts : accept(c, addr, p)
    \/ \E c \in Conns : lock_acquire(c)
    \/ \E c \in Conns : check_evict(c)
    \/ \E c \in Conns : check_decide(c)
    \/ \E c \in Conns : check_push(c)
    \/ \E c \in Conns, wok \in BOOLEAN : reject_write(c, wok)
    \/ \E c \in Conns, ok \in BOOLEAN : tls_handshake(c, ok)
    \/ \E c \in Conns, wok \in BOOLEAN : plain_banner(c, wok)
    \/ \E c \in Conns, wok \in BOOLEAN : tls_banner(c, wok)
    \/ \E c \in Conns, r \in AllLines \cup {ReadEof, ReadErr} :
            handle_plain_stream(c, r)
    \/ \E c \in Conns, r \in AllLines \cup {ReadEof, ReadErr} :
            handle_tls_stream(c, r)

Next == Serve

NextAdmit ==
    \/ Serve
    \/ \E d \in Advance : Tick(d)

Spec == Init /\ [][Next]_vars

SpecAdmit == InitAdmit /\ [][NextAdmit]_vars

SpecRcpt == InitRcpt /\ [][Next]_vars

SpecCmd == InitCmd /\ [][Next]_vars

SpecAuth == InitAuth /\ [][Next]_vars

NextListen ==
    \/ Serve
    \/ \E p \in AllPorts, ok \in BOOLEAN : run_server(p, ok)
    \/ \E p \in AllPorts : accept_error(p)

SpecListen == InitListen /\ [][NextListen]_vars

SpecSave == InitSave /\ [][NextAdmit]_vars

\* The upgrade routine of the source, handle_starttls_stream: a handshake on
\* the plaintext stream and, when it succeeds, handle_tls_stream, which
\* constructs its own session. The value is the session the connection is
\* served with afterwards, None when the handler ends instead. No call to
\* this routine exists in the source.
handle_starttls_stream(c, ok) ==
    IF tls_acceptor /\ ok
    THEN Some(NewSession(client_addr[c][1], TRUE))
    ELSE None

\* ------------------------------------------------------------- properties
\* Time stamps of the admissions of address a, oldest first.
AdmitTimes(a) ==
    LET F[i \in 0..Len(admitLog)] ==
            IF i = 0 THEN <<>>
            ELSE IF admitLog[i][1] = a THEN Append(F[i - 1], admitLog[i][2])
            ELSE F[i - 1]
    IN  F[Len(admitLog)]

IsSuffix(s, t) ==
    /\ Len(s) <= Len(t)
    /\ SubSeq(t, Len(t) - Len(s) + 1, Len(t)) = s

\* The last line of connection c was dispatched to process_command: it was
\* read outside body capture.
Dispatched(c) ==
    /\ io[c].last_line # None
    /\ io[c].last_line[1] \in AllLines
    /\ io[c].before # None
    /\ ~io[c].before[1].expecting_data

\* ... and its first token, upper-cased, is kw.
DispatchedAs(c, kw) ==
    /\ Dispatched(c)
    /\ Keyword(trim_end(io[c].last_line[1])) = Some(kw)

\* The response written to the last line starts with code.
Answered(c, code) ==
    /\ io[c].last_resp # None
    /\ resp_starts_with(io[c].last_resp[1], code)

\* The last line of connection c was the lone dot that ends a message body.
CompletedMessage(c) ==
    /\ io[c].last_line # None
    /\ io[c].last_line[1] \in AllLines
    /\ io[c].before # None
    /\ io[c].before[1].expecting_data
    /\ trim_end(io[c].last_line[1]) = <<".">>

\* STARTTLS is enabled for the port of connection c and a certificate is
\* configured.
StartTlsEligible(c) ==
    /\ port[c] # None
    /\ port[c][1] \in {PortSmtp, PortSubmission}
    /\ opt.starttls
    /\ tls_acceptor

\* C1: every admission of an address had fewer than max_per_minute earlier
\* admissions of that address in the 60 seconds before it, and no 60-second
\* span holds more than max_per_minute admissions of one address (none at
\* all when the cap is 0).
C1_WindowCap ==
    \A i \in 1..Len(admitLog) :
        /\ Cardinality({j \in 1..(i - 1) :
                /\ admitLog[j][1] = admitLog[i][1]
                /\ admitLog[i][2] - admitLog[j][2] <= WindowSecs})
              < opt.max_connections_per_minute
        /\ Cardinality({j \in 1..Len(admitLog) :
                /\ admitLog[j][1] = admitLog[i][1]
                /\ admitLog[j][2] >= admitLog[i][2]
                /\ admitLog[j][2] - admitLog[i][2] <= WindowSecs})
              <= opt.max_connections_per_minute

\* C1 witness: with a cap of at least 1, a check is rejected because the
\* admission made exactly 60 seconds before it still counts.
C1_Witness ==
    \E c \in Conns :
        /\ opt.max_connections_per_minute >= 1
        /\ io[c].verdict = "rejected"
        /\ \E i \in 1..Len(admitLog) :
              /\ admitLog[i][1] = client_addr[c][1]
              /\ t_now[c] - admitLog[i][2] = WindowSecs

\* C2 (as claimed): the window is shared by all connections of one source
\* IP, whatever their source port: every admission had fewer than
\* max_per_minute earlier admissions from the same IP in the 60 seconds
\* before it.
C2_PerIpWindow ==
    \A i \in 1..Len(admitLog) :
        Cardinality({j \in 1..(i - 1) :
            /\ admitLog[j][1].ip = admitLog[i][1].ip
            /\ admitLog[i][2] - admitLog[j][2] <= WindowSecs})
          < opt.max_connections_per_minute

\* C3: a connection the rate limiter rejected is written to at most once,
\* and then only the 421 line; it gets no greeting, no TLS handshake, no
\* session and no read, and its task is in the rejection branch or ended.
\* A connection still waiting for its verdict has had none of these either.
C3_RejectedGetsOnly421 ==
    \A c \in Conns :
        /\ io[c].verdict = "rejected" =>
              /\ io[c].writes <= 1
              /\ io[c].writes = 1 => Answered(c, "421")
              /\ ~io[c].banner
              /\ io[c].handshakes = 0
              /\ session[c] = None
              /\ io[c].reads = 0
              /\ io[c].last_line = None
              /\ pc[c] \in {"reject", "closed"}
        /\ io[c].verdict = "undecided" =>
              /\ io[c].writes = 0
              /\ io[c].handshakes = 0
              /\ session[c] = None
              /\ io[c].reads = 0

\* C3 witness: under a cap of at least 1, a rejected connection on the
\* implicit-TLS port, closed after its 421 was written.
C3_Witness ==
    \E c \in Conns :
        /\ opt.max_connections_per_minute >= 1
        /\ io[c].verdict = "rejected"
        /\ port[c] = Some(PortSmtps)
        /\ pc[c] = "closed"
        /\ io[c].writes = 1
        /\ Answered(c, "421")

\* C4: with handler tasks interleaved in every way, a connection has had
\* no verdict before its check and exactly one after it; the deque of an
\* address is a suffix of the time stamps of its admissions (every
\* admission pushed exactly one, none lost, none doubled); and the deque
\* never holds more than max_per_minute time stamps.
C4_ConcurrentAdmission ==
    /\ \A c \in Conns :
          io[c].checks =
            IF pc[c] \in {"unborn", "lock", "evict", "decide"} THEN 0 ELSE 1
    /\ \A c \in Conns : (io[c].verdict = "undecided") <=> (io[c].checks = 0)
    /\ \A a \in DOMAIN connections :
          /\ IsSuffix(connections[a], AdmitTimes(a))
          /\ Len(connections[a]) <= opt.max_connections_per_minute
    /\ Len(admitLog) = Cardinality({c \in Conns :
                          io[c].verdict = "admitted" /\ pc[c] # "push"})

\* C4 witness: two tasks contend for one address: one waits for the lock
\* while the other, holding it, is about to push its time stamp.
C4_Witness ==
    \E c1, c2 \in Conns :
        /\ c1 # c2
        /\ client_addr[c1] = client_addr[c2]
        /\ pc[c1] = "lock"
        /\ pc[c2] = "push"
        /\ lock = Some(c2)

\* C5 (as claimed): the response to a dispatched HELO/EHLO contains
\* 250-STARTTLS exactly when STARTTLS is enabled for the port (25 or 587
\* with the starttls option), a certificate is configured and TLS is not
\* active on the session.
C5_AdvertisedIffEligible ==
    \A c \in Conns :
        ((DispatchedAs(c, S_EHLO) \/ DispatchedAs(c, S_HELO)) /\ Answered(c, "250"))
        => ((\E i \in 1..Len(io[c].last_resp[1]) :
                 io[c].last_resp[1][i] = Reply("250", "-", "STARTTLS", None))
            <=> (StartTlsEligible(c) /\ ~io[c].before[1].tls_active))

\* C6 (as claimed): on a plaintext connection on a STARTTLS-eligible port a
\* dispatched STARTTLS is answered 220 (the handshake follows).
C6_StartTlsAnswered220 ==
    \A c \in Conns :
        (/\ DispatchedAs(c, S_STARTTLS)
         /\ io[c].last_resp # None
         /\ StartTlsEligible(c)
         /\ ~io[c].before[1].tls_active)
        => Answered(c, "220")

\* C7: a dispatched STARTTLS on a session with TLS active, or on a
\* connection where STARTTLS was never offered, starts no handshake and
\* leaves the session and the stream as they were; when the response is
\* written it is 454 and the handler goes on with its loop.
C7_StartTlsRefused ==
    \A c \in Conns :
        (/\ DispatchedAs(c, S_STARTTLS)
         /\ (io[c].before[1].tls_active \/ ~StartTlsEligible(c)))
        => /\ session[c] = io[c].before
           /\ io[c].handshakes = (IF io[c].before[1].tls_active THEN 1 ELSE 0)
           /\ stream[c] = (IF io[c].before[1].tls_active THEN "tls" ELSE "plain")
           /\ io[c].last_resp # None =>
                 /\ Answered(c, "454")
                 /\ pc[c] = "loop"

\* C7 witness: STARTTLS on a TLS session that has a HELO name, answered 454.
C7_Witness ==
    \E c \in Conns :
        /\ DispatchedAs(c, S_STARTTLS)
        /\ io[c].before[1].tls_active
        /\ io[c].before[1].helo # None
        /\ Answered(c, "454")
        /\ pc[c] = "loop"

\* C8 (as claimed): the upgrade of a plaintext connection to TLS keeps the
\* session: the session the connection is served with after the routine
\* that performs the upgrade has the helo, mail_from and rcpt_to of the
\* session before it.
C8_SessionKeptAcrossUpgrade ==
    \A c \in Conns :
        (pc[c] = "loop" /\ stream[c] = "plain" /\ tls_acceptor)
        => LET after == handle_starttls_stream(c, TRUE)
           IN  /\ after # None
               /\ after[1].helo = session[c][1].helo
               /\ after[1].mail_from = session[c][1].mail_from
               /\ after[1].rcpt_to = session[c][1].rcpt_to

\* C9: a dispatched DATA whose response is written is answered 354 exactly
\* when, since the last transaction reset or the start of the session, a
\* MAIL was answered 250 and an RCPT was answered 250; otherwise it is
\* answered 503; and the session expects a body afterwards exactly when the
\* answer was 354.
C9_DataNeedsMailAndRcpt ==
    \A c \in Conns :
        (DispatchedAs(c, S_DATA) /\ io[c].last_resp # None)
        => /\ Answered(c, "354") <=> (txn[c].mail /\ txn[c].rcpt)
           /\ ~Answered(c, "354") => Answered(c, "503")
           /\ session[c][1].expecting_data <=> Answered(c, "354")

\* C9 witness: DATA right after a completed message (MAIL, RCPT, DATA, dot,
\* DATA are the five lines read) is answered 503.
C9_Witness ==
    \E c \in Conns :
        /\ DispatchedAs(c, S_DATA)
        /\ Answered(c, "503")
        /\ io[c].reads = 5
        /\ DOMAIN files # {}
        /\ ~session[c][1].expecting_data

\* C10: after a dispatched RSET, and after the lone dot that completes a
\* message, mail_from, rcpt_to and data are empty and expecting_data is
\* false, while helo, tls_active, starttls_enabled and client_addr are what
\* they were before the line; a written response to RSET is 250.
C10_ResetFrame ==
    \A c \in Conns :
        (DispatchedAs(c, S_RSET) \/ CompletedMessage(c))
        => LET s == session[c][1]
               b == io[c].before[1]
           IN  /\ s.mail_from = None
               /\ s.rcpt_to = <<>>
               /\ s.data = <<>>
               /\ ~s.expecting_data
               /\ s.helo = b.helo
               /\ s.tls_active = b.tls_active
               /\ s.starttls_enabled = b.starttls_enabled
               /\ s.client_addr = b.client_addr
               /\ (DispatchedAs(c, S_RSET) /\ io[c].last_resp # None)
                     => Answered(c, "250")

\* C10 witness: RSET answered 250 on a TLS session that had a HELO name, a
\* sender and a recipient.
C10_Witness ==
    \E c \in Conns :
        /\ DispatchedAs(c, S_RSET)
        /\ Answered(c, "250")
        /\ io[c].before[1].helo # None
        /\ io[c].before[1].mail_from # None
        /\ io[c].before[1].rcpt_to # <<>>
        /\ io[c].before[1].tls_active
        /\ session[c][1].mail_from = None

\* ------------------------------------------------- recipient policy claims
\* A line without its line terminator.
Content(line) ==
    IF Len(line) >= 2 /\ SubSeq(line, Len(line) - 1, Len(line)) = CRLF
    THEN SubSeq(line, 1, Len(line) - 2)
    ELSE line

\* The line reads RCPT TO:<addr> (keyword and TO: in any case), with no
\* whitespace and no angle bracket inside addr.
WellFormedRcpt(line) ==
    LET t == Content(line)
        n == Len(t)
    IN  /\ n >= 10
        /\ to_uppercase(SubSeq(t, 1, 4)) = S_RCPT
        /\ t[5] = " "
        /\ to_uppercase(SubSeq(t, 6, 8)) = S_TO
        /\ t[9] = "<"
        /\ t[n] = ">"
        /\ \A i \in 10..(n - 1) : t[i] \notin Whitespace \cup {"<", ">"}

\* The addr of a line that reads RCPT TO:<addr>.
RcptAddr(line) == SubSeq(Content(line), 10, Len(Content(line)) - 1)

\* The positions of '@' in an address and the part after the last one.
AtPositions(addr) == {i \in 1..Len(addr) : addr[i] = "@"}
AfterLastAt(addr) ==
    LET last == CHOOSE i \in AtPositions(addr) :
                    \A j \in AtPositions(addr) : j <= i
    IN  SubSeq(addr, last + 1, Len(addr))

\* The last line of connection c was a dispatched RCPT TO:<addr>.
RcptDispatched(c) ==
    /\ DispatchedAs(c, S_RCPT)
    /\ WellFormedRcpt(io[c].last_line[1])

\* C11 (as claimed): with open relay off, an answered RCPT TO:<addr> gets 250
\* and addr is appended to rcpt_to exactly when addr is a listed mailbox or
\* the part of addr after its last '@' is an accepted domain; otherwise it
\* gets 550 and rcpt_to is unchanged.
C11_DomainAfterLastAt ==
    \A c \in Conns :
        (RcptDispatched(c) /\ ~opt.open_relay /\ io[c].last_resp # None) =>
            LET addr == RcptAddr(io[c].last_line[1])
                accepted ==
                    \/ addr \in opt.valid_mailboxes
                    \/ /\ AtPositions(addr) # {}
                       /\ AfterLastAt(addr) \in opt.domains
            IN  IF accepted
                THEN /\ Answered(c, "250")
                     /\ session[c][1].rcpt_to =
                            Append(io[c].before[1].rcpt_to, addr)
                ELSE /\ Answered(c, "550")
                     /\ session[c][1].rcpt_to = io[c].before[1].rcpt_to

\* C12: with open relay on, every RCPT TO:<addr> appends addr to rcpt_to,
\* whatever the address, and the response written to it is 250 (the only
\* other outcome is a failed write, which ends the connection).
C12_OpenRelayAcceptsAll ==
    \A c \in Conns :
        (RcptDispatched(c) /\ opt.open_relay) =>
            /\ session[c][1].rcpt_to =
                   Append(io[c].before[1].rcpt_to,
                          RcptAddr(io[c].last_line[1]))
            /\ Answered(c, "250") \/ (io[c].last_resp = None /\ io[c].exit = "err")

\* C12 witness: with open relay on and no mailbox listed, a RCPT for an
\* address outside the accepted domain is answered 250.
C12_Witness ==
    \E c \in Conns :
        /\ RcptDispatched(c)
        /\ opt.open_relay
        /\ opt.valid_mailboxes = {}
        /\ RcptAddr(io[c].last_line[1]) = Mailbox_n_o
        /\ Answered(c, "250")

\* ----------------------------------------------------- body capture claims
\* The last line of connection c was read during body capture.
InBody(c) ==
    /\ io[c].last_line # None
    /\ io[c].last_line[1] \in AllLines
    /\ io[c].before # None
    /\ io[c].before[1].expecting_data

\* C13 (as claimed): during body capture a line ends the body exactly when
\* it consists of a single '.'; every other line, a '.' followed by
\* whitespace and a line with trailing whitespace included, is appended to
\* the body as it was sent, with no response and no command dispatch.
C13_OnlyLoneDotEndsBody ==
    \A c \in Conns :
        InBody(c) =>
            LET text == Content(io[c].last_line[1])
            IN  IF text = <<".">>
                THEN ~session[c][1].expecting_data
                ELSE /\ session[c][1].expecting_data
                     /\ session[c][1].data = Append(io[c].before[1].data, text)
                     /\ io[c].last_resp = None

\* The text made of the given lines with CR LF between consecutive lines.
JoinedByCRLF(lines) ==
    LET F[i \in 0..Len(lines)] ==
            IF i = 0 THEN <<>>
            ELSE IF i = 1 THEN lines[1]
            ELSE F[i - 1] \o <<"\r", "\n">> \o lines[i]
    IN  F[Len(lines)]

\* C14: when the line that ends the body arrives, the file written for the
\* message holds the helo, mail_from, rcpt_to (in order) and body lines
\* joined by CR LF that the session had before the reset, and after the
\* line mail_from is unset, rcpt_to and data are empty and expecting_data
\* is false.
C14_SavedBeforeReset ==
    \A c \in Conns :
        CompletedMessage(c) =>
            /\ io[c].saved # None =>
                  /\ io[c].saved[1] \in DOMAIN files
                  /\ LET f == files[io[c].saved[1]]
                         b == io[c].before[1]
                     IN  /\ f.helo = b.helo
                         /\ f.mail_from = b.mail_from
                         /\ f.rcpt_to = b.rcpt_to
                         /\ f.body = JoinedByCRLF(b.data)
            /\ session[c][1].mail_from = None
            /\ session[c][1].rcpt_to = <<>>
            /\ session[c][1].data = <<>>
            /\ ~session[c][1].expecting_data

\* C14 witness: a message with a sender, a recipient and two body lines was
\* written to a file and answered 250.
C14_Witness ==
    \E c \in Conns :
        /\ CompletedMessage(c)
        /\ io[c].saved # None
        /\ Len(io[c].before[1].data) = 2
        /\ io[c].before[1].mail_from # None
        /\ io[c].before[1].rcpt_to # <<>>
        /\ Answered(c, "250")

\* How many files save_email_data has written for completed messages.
SavedMessages ==
    LET F[i \in 0..MaxConns] == IF i = 0 THEN 0 ELSE F[i - 1] + io[i].saves
    IN  F[MaxConns]

\* C15 (as claimed): every message written to the data directory has a file
\* of its own: a later write never replaces the file of an earlier message,
\* two messages from one IP within one second included.
C15_OneFilePerMessage == Cardinality(DOMAIN files) = SavedMessages

\* C16 (as claimed): expecting_data is true exactly while a 354 response to
\* DATA has been sent and the line consisting of a single '.' has not been
\* received since; and whenever it is true, mail_from is set and rcpt_to is
\* not empty.
C16_ExpectingDataIffCapture ==
    \A c \in Conns :
        session[c] # None =>
            /\ session[c][1].expecting_data <=> io[c].capture
            /\ session[c][1].expecting_data =>
                  /\ session[c][1].mail_from # None
                  /\ session[c][1].rcpt_to # <<>>

\* ------------------------------------------------------- connection claims
\* C17: once a session's tls_active is true, no step sets it back to false:
\* not RSET, HELO/EHLO, STARTTLS, a completed message or any other line.
C17_TlsActiveStaysTrue ==
    [][\A c \in Conns :
          (session[c] # None /\ session[c][1].tls_active) =>
              (session'[c] # None /\ session'[c][1].tls_active)]_vars

\* C17 witness: on a TLS session with a sender recorded, RSET was answered
\* 250 and the session is still marked TLS.
C17_Witness ==
    \E c \in Conns :
        /\ DispatchedAs(c, S_RSET)
        /\ Answered(c, "250")
        /\ io[c].before[1].tls_active
        /\ io[c].before[1].mail_from # None
        /\ session[c][1].tls_active

\* The response codes of protocol errors.
ErrorCodes == {"500", "501", "550", "503", "454"}

\* The transaction state of a session.
Transaction(s) == <<s.mail_from, s.rcpt_to, s.data, s.expecting_data>>

\* The last line of connection c was dispatched and answered with a
\* protocol error.
ProtocolError(c) ==
    /\ Dispatched(c)
    /\ io[c].last_resp # None
    /\ io[c].last_resp[1][1].code \in ErrorCodes

\* C18: a command answered 500, 501, 550, 503 or 454 leaves mail_from,
\* rcpt_to, data and expecting_data as they were, and the handler stays in
\* its loop to read the next line.
C18_ErrorsKeepSession ==
    \A c \in Conns :
        ProtocolError(c) =>
            /\ Transaction(session[c][1]) = Transaction(io[c].before[1])
            /\ pc[c] = "loop"

\* C18 witness: with a sender and a recipient recorded, a MAIL without
\* FROM: was answered 501 and the handler is still in its loop.
C18_Witness ==
    \E c \in Conns :
        /\ ProtocolError(c)
        /\ DispatchedAs(c, S_MAIL)
        /\ Answered(c, "501")
        /\ io[c].before[1].mail_from # None
        /\ io[c].before[1].rcpt_to # <<>>
        /\ pc[c] = "loop"

\* Connection c's handler was ended by a failed write, a failed read or the
\* peer's disconnect.
EndedByIo(c) ==
    /\ pc[c] = "closed"
    /\ \/ io[c].exit = "err"
       \/ io[c].last_line \in {Some(ReadEof), Some(ReadErr)}

\* C19: a read error, write error or disconnect ends only the handler of
\* its own connection. The step that ends it changes no other connection,
\* not the limiter and not the listeners; afterwards the limiter's lock is
\* not held by the ended handler and a new connection can still be
\* accepted.
C19_IoErrorIsLocal ==
    /\ [](\A c \in Conns :
            EndedByIo(c) =>
                /\ lock # Some(c)
                /\ connsLeft > 0 =>
                      ENABLED (\E a \in SocketAddrs, p \in AllPorts :
                                   accept(nconn + 1, a, p)))
    /\ [][\A c \in Conns :
            (~EndedByIo(c) /\ EndedByIo(c)') =>
                /\ \A c2 \in Conns \ {c} :
                      /\ pc'[c2] = pc[c2]
                      /\ session'[c2] = session[c2]
                      /\ io'[c2] = io[c2]
                      /\ stream'[c2] = stream[c2]
                /\ UNCHANGED <<connections, lock, nconn, connsLeft>>]_vars

\* C19 witness: one connection was ended by a read error or a failed write
\* while another one is being served and the lock is free.
C19_Witness ==
    \E c \in Conns, c2 \in Conns :
        /\ c # c2
        /\ EndedByIo(c)
        /\ io[c].exit = "err" \/ io[c].last_line = Some(ReadErr)
        /\ pc[c2] = "loop"
        /\ lock = None

\* The ways a handler ends. Quit221: the 221 response to a QUIT dispatched
\* outside body capture was written. PeerClosed: read_line returned Ok(0).
\* IoError: a read failed, a write of the banner or of a response failed,
\* or the TLS handshake failed. Rejected: the rate limiter turned the
\* connection away and the rejection branch made its one write attempt.
Quit221(c) == DispatchedAs(c, S_QUIT) /\ Answered(c, "221")
PeerClosed(c) == io[c].last_line = Some(ReadEof)
IoError(c) ==
    \/ io[c].last_line = Some(ReadErr)
    \/ io[c].exit = "err"
    \/ io[c].handshakes > 0 /\ stream[c] # "tls"
Rejected(c) == io[c].verdict = "rejected" /\ io[c].exit # "running"

\* A further turn of connection c's read loop.
ReadsOn(c) ==
    \E r \in AllLines \cup {ReadEof, ReadErr} :
        handle_plain_stream(c, r) \/ handle_tls_stream(c, r)

\* C20 (as claimed): a handler is closed exactly when it has written the
\* 221 response to QUIT, the peer closed its side, or a read or write error
\* occurred; after a 221 it reads no further line.
C20_ClosedByQuitEofOrError ==
    \A c \in Conns :
        /\ pc[c] = "closed" <=> (Quit221(c) \/ PeerClosed(c) \/ IoError(c))
        /\ Quit221(c) => ~ENABLED ReadsOn(c)

\* C20 (amended): a handler is closed exactly when the rate limiter
\* rejected its connection, it has written the 221 response to QUIT, the
\* peer closed its side, or a read or write error occurred; after a 221 it
\* reads no further line, and without one of these events it never ends.
C20_ClosedAlsoByRejection ==
    \A c \in Conns :
        /\ pc[c] = "closed" <=>
              (Rejected(c) \/ Quit221(c) \/ PeerClosed(c) \/ IoError(c))
        /\ Quit221(c) => ~ENABLED ReadsOn(c)

\* C20 witness: after other lines, a QUIT was answered 221 and the handler
\* is closed.
C20_Witness ==
    \E c \in Conns :
        /\ Quit221(c)
        /\ io[c].reads >= 2
        /\ pc[c] = "closed"

\* ------------------------------------------------------------ wire claims
\* C21: the greeting is written before any line is read; every dispatched
\* line gets exactly one response before the next line is read (unless
\* that write fails, which ends the connection); a body line that does not
\* end the body gets no response. In counts: the responses written are the
\* greeting plus one per line read that was not stored as a body line.
C21_OneResponsePerCommand ==
    \A c \in Conns :
        /\ io[c].reads > 0 => io[c].banner
        /\ Dispatched(c) => (io[c].last_resp # None \/ io[c].exit = "err")
        /\ (InBody(c) /\ session[c][1].expecting_data) =>
              io[c].last_resp = None
        /\ io[c].banner =>
              io[c].writes + io[c].silent
                  + (IF io[c].exit = "err" THEN 1 ELSE 0)
              = 1 + io[c].reads

\* C21 witness: after the greeting, MAIL, RCPT and DATA were answered, one
\* body line went unanswered and the lone dot was answered 250: five writes
\* for five lines read.
C21_Witness ==
    \E c \in Conns :
        /\ CompletedMessage(c)
        /\ Answered(c, "250")
        /\ io[c].reads = 5
        /\ io[c].silent = 1
        /\ io[c].writes = 5

\* Connection c has been greeted, has a session or has had a line read.
Served(c) == io[c].banner \/ io[c].reads > 0 \/ session[c] # None

\* C22: on port 465 with a certificate, nothing is written or read and no
\* session exists before the TLS handshake has succeeded, and the session
\* has tls_active = true; on port 465 without a certificate and on every
\* other port no handshake is made, the stream stays plaintext and the
\* session has tls_active = false.
C22_ImplicitTlsOn465 ==
    \A c \in Conns :
        port[c] # None =>
            IF port[c][1] = PortSmtps /\ tls_acceptor
            THEN /\ Served(c) => (io[c].handshakes = 1 /\ stream[c] = "tls")
                 /\ session[c] # None => session[c][1].tls_active
            ELSE /\ io[c].handshakes = 0
                 /\ stream[c] # "tls"
                 /\ session[c] # None => ~session[c][1].tls_active

\* C22 witness: a connection on port 465 with a certificate was greeted
\* after its handshake and has a TLS session that has read a line.
C22_Witness ==
    \E c \in Conns :
        /\ port[c] = Some(PortSmtps)
        /\ tls_acceptor
        /\ io[c].handshakes = 1
        /\ io[c].banner
        /\ io[c].reads = 1
        /\ session[c] # None
        /\ session[c][1].tls_active

\* The TLS handshake of connection c was attempted and failed.
HandshakeFailed(c) == io[c].handshakes > 0 /\ stream[c] # "tls"

\* C23: after a failed TLS handshake the handler is closed, nothing was
\* written (no greeting, no error line), no line was read and no session
\* exists: the connection is not served in plaintext instead. The upgrade
\* routine likewise serves no session after a failed handshake.
C23_HandshakeFailureCloses ==
    \A c \in Conns :
        /\ HandshakeFailed(c) =>
              /\ pc[c] = "closed"
              /\ io[c].writes = 0
              /\ ~io[c].banner
              /\ io[c].reads = 0
              /\ session[c] = None
        /\ client_addr[c] # None => handle_starttls_stream(c, FALSE) = None

\* C23 witness: an admitted connection on port 465 whose handshake failed.
C23_Witness ==
    \E c \in Conns :
        /\ io[c].verdict = "admitted"
        /\ port[c] = Some(PortSmtps)
        /\ HandshakeFailed(c)
        /\ pc[c] = "closed"

\* ------------------------------------------------------- limiter claims
\* The deque of address a, empty when the key is absent, after the step.
entry_after(a) ==
    IF a \in DOMAIN connections' THEN connections'[a] ELSE <<>>

\* C24: the eviction of an admission check drops time stamps from the front
\* only, drops exactly those more than 60 seconds old and keeps every one
\* at most 60 seconds old; and the check admits exactly when fewer than
\* max_per_minute time stamps are left, so a full key whose oldest time
\* stamp is more than 60 seconds old is admitted again.
C24_SlotFreedByAgeing ==
    [][\A c \in Conns :
          /\ (pc[c] = "evict" /\ pc'[c] = "decide") =>
                LET a == client_addr[c][1]
                    old == entry(a)
                    new == entry_after(a)
                    dropped == Len(old) - Len(new)
                IN  /\ IsSuffix(new, old)
                    /\ \A i \in 1..Len(old) :
                          (i <= dropped) <=> (now - old[i] > 60)
                    /\ (Len(old) >= 1 /\ now - old[1] > 60) =>
                          Len(new) < Len(old)
          /\ (pc[c] = "decide" /\ pc'[c] # "decide") =>
                (pc'[c] = "push" <=>
                    Len(entry(client_addr[c][1]))
                        < opt.max_connections_per_minute)]_vars

\* C24 witness: an address that was admitted once under a cap of 1 is
\* admitted a second time, by a check made 61 seconds later, and its deque
\* holds the new time stamp only.
C24_Witness ==
    \E c \in Conns :
        /\ opt.max_connections_per_minute = 1
        /\ io[c].verdict = "admitted"
        /\ pc[c] \notin {"decide", "push"}
        /\ AdmitTimes(client_addr[c][1]) = <<0, 61>>
        /\ t_now[c] = 61
        /\ entry(client_addr[c][1]) = <<61>>

\* ------------------------------------------------------- command claims
\* C25: AUTH leaves the whole session as it was (helo, mail_from, rcpt_to,
\* data, expecting_data, tls_active and the authenticated flag), and the
\* response written to it is 504 for a bare AUTH, 334 with the base64
\* "Username:" prompt for AUTH LOGIN in any case, and 235 for every other
\* AUTH with a parameter.
C25_AuthChangesNothing ==
    \A c \in Conns :
        DispatchedAs(c, S_AUTH) =>
            LET parts == split_whitespace(Content(io[c].last_line[1]))
                code == IF Len(parts) = 1 THEN "504"
                        ELSE IF to_uppercase(parts[2]) = <<"L","O","G","I","N">>
                        THEN "334"
                        ELSE "235"
            IN  /\ session[c] = io[c].before
                /\ io[c].last_resp # None =>
                      /\ Len(io[c].last_resp[1]) = 1
                      /\ io[c].last_resp[1][1].code = code
                      /\ code = "334" =>
                            io[c].last_resp[1][1].text = "VXNlcm5hbWU6"
                /\ io[c].last_resp = None => io[c].exit = "err"

\* C25 witness: on a TLS session with a greeting name, a sender and a
\* recipient recorded, "auth login" in lower case was answered 334.
C25_Witness ==
    \E c \in Conns :
        /\ DispatchedAs(c, S_AUTH)
        /\ io[c].last_line = Some(L_auth_login)
        /\ Answered(c, "334")
        /\ io[c].before[1].tls_active
        /\ io[c].before[1].helo # None
        /\ io[c].before[1].mail_from # None
        /\ io[c].before[1].rcpt_to # <<>>

\* C26 (as claimed): the limiter's lock is held only while an admission
\* check evicts, counts and appends: no handler holds it while it logs,
\* waits for its socket to become writable or writes the 421 line.
C26_LockOnlyDuringCheck ==
    \A c \in Conns :
        lock = Some(c) => pc[c] \in {"evict", "decide", "push"}

\* C27: a rejected check records nothing and an admitted one appends its
\* time stamp once, at the back. In every state the deque of a key is a
\* suffix of the key's admission times; the steps of a check after its
\* eviction leave the map alone when the check is rejected, and the push of
\* an admitted check appends exactly the time the check read.
C27_RejectRecordsNothing ==
    /\ [](\A a \in SocketAddrs : IsSuffix(entry(a), AdmitTimes(a)))
    /\ [][\A c \in Conns :
            /\ (pc[c] \in {"decide", "reject"} /\ pc'[c] # pc[c]) =>
                  connections' = connections
            /\ (pc[c] = "push" /\ pc'[c] # "push") =>
                  LET a == client_addr[c][1]
                  IN  /\ entry_after(a) = Append(entry(a), t_now[c])
                      /\ \A b \in SocketAddrs \ {a} : entry_after(b) = entry(b)]_vars

\* C27 witness: under a cap of 1 a check made 60 seconds after the key's
\* admission was rejected, and the key's deque still holds that admission
\* only.
C27_Witness ==
    \E c \in Conns :
        /\ opt.max_connections_per_minute = 1
        /\ io[c].verdict = "rejected"
        /\ pc[c] = "closed"
        /\ t_now[c] = 60
        /\ entry(client_addr[c][1]) = <<0>>
        /\ AdmitTimes(client_addr[c][1]) = <<0>>

\* The keywords of the commands that leave rcpt_to alone.
KeepsRecipients ==
    {S_MAIL, S_HELO, S_EHLO, S_AUTH, S_NOOP, S_VRFY, S_EXPN, S_STARTTLS}

\* The members of a sequence.
Range(seq) == {seq[i] : i \in 1..Len(seq)}

\* C28: a dispatched line changes rcpt_to only by appending the address of
\* an accepted RCPT (answered 250) at the end, or by the reset of RSET; a
\* RCPT answered 550 or 501 appends nothing and a rejected address is not
\* in rcpt_to; MAIL, HELO/EHLO, AUTH, NOOP, VRFY/EXPN and STARTTLS leave
\* rcpt_to as it was, a second MAIL included.
C28_RcptToAppendOnly ==
    \A c \in Conns :
        Dispatched(c) =>
            LET line == io[c].last_line[1]
                old == io[c].before[1].rcpt_to
                new == session[c][1].rcpt_to
            IN  /\ new # old =>
                      \/ /\ RcptDispatched(c)
                         /\ new = Append(old, RcptAddr(line))
                         /\ Answered(c, "250") \/ io[c].last_resp = None
                      \/ /\ DispatchedAs(c, S_RSET)
                         /\ new = <<>>
                /\ (Answered(c, "550") \/ Answered(c, "501")) => new = old
                /\ (RcptDispatched(c) /\ Answered(c, "550")) =>
                      RcptAddr(line) \notin Range(new)
                /\ (\E kw \in KeepsRecipients : DispatchedAs(c, kw)) => new = old

\* C28 witness: with two recipients accepted, a second MAIL with another
\* sender was answered 250; it replaced mail_from and kept both recipients.
C28_Witness ==
    \E c \in Conns :
        /\ DispatchedAs(c, S_MAIL)
        /\ Answered(c, "250")
        /\ io[c].before[1].mail_from # None
        /\ session[c][1].mail_from # io[c].before[1].mail_from
        /\ Len(io[c].before[1].rcpt_to) = 2
        /\ session[c][1].rcpt_to = io[c].before[1].rcpt_to

\* ------------------------------------------------------- listener claims
\* Some peer has no live connection to port p, so it can open one.
PeerCanConnect(p) ==
    \E a \in peers :
        \A c \in Conns :
            Live(c) => ~(client_addr[c] = Some(a) /\ port[c] = Some(p))

C30_SaveFailureIsSilent ==
    /\ ~opt.data_dir => DOMAIN files = {}
    /\ \A c \in Conns :
          (CompletedMessage(c) /\ io[c].saved = None) =>
              /\ ~session[c][1].expecting_data
              /\ session[c][1].mail_from = None
              /\ session[c][1].rcpt_to = <<>>
              /\ session[c][1].data = <<>>
              /\ \/ /\ io[c].last_resp =
                          Some(Resp("250", "OK: Message accepted"))
                    /\ pc[c] = "loop"
                 \/ /\ io[c].last_resp = None
                    /\ io[c].exit = "err"

\* C30 witness: with a data directory configured the file write of a
\* completed message failed, the line was answered 250 and the handler is
\* in its loop.
C30_Witness ==
    \E c \in Conns :
        /\ opt.data_dir
        /\ CompletedMessage(c)
        /\ io[c].saved = None
        /\ Answered(c, "250")
        /\ pc[c] = "loop"

\* ---------------------------------------------------------- AUTH exchange
\* The keywords process_command has an arm for.
KnownKeywords == {S_HELO, S_EHLO, S_STARTTLS, S_MAIL, S_RCPT, S_DATA, S_AUTH,
                  S_QUIT, S_RSET, S_NOOP, S_VRFY, S_EXPN}

\* The last line of connection c was an AUTH LOGIN that was answered 334.
PromptedForUser(c) ==
    /\ DispatchedAs(c, S_AUTH)
    /\ Answered(c, "334")

\* C31: AUTH opens no multi-step exchange. After AUTH LOGIN was answered 334
\* the session is as it was before the AUTH, is not expecting input and the
\* handler is back at the top of its loop; the next line read meets that
\* same session, is dispatched as a command, and the response written to it
\* is a 500 exactly when the line has no token or its first token is not a
\* known command keyword.
C31_AuthOpensNoExchange ==
    /\ [](\A c \in Conns :
            PromptedForUser(c) =>
                /\ session[c] = io[c].before
                /\ ~session[c][1].expecting_data
                /\ pc[c] = "loop")
    /\ [][\A c \in Conns :
            (PromptedForUser(c) /\ io'[c].reads = io[c].reads + 1) =>
                LET line == io'[c].last_line[1]
                    kw == Keyword(Content(line))
                    unknown == kw = None \/ kw[1] \notin KnownKeywords
                IN  /\ io'[c].before = io[c].before
                    /\ io'[c].silent = io[c].silent
                    /\ io'[c].last_resp # None =>
                          (resp_starts_with(io'[c].last_resp[1], "500")
                              <=> unknown)
                    /\ io'[c].last_resp = None => io'[c].exit = "err"
                    /\ unknown => session'[c] = session[c]
       ]_vars

\* C31 witness: on a session with a sender recorded, the base64 user name
\* sent right after the 334 prompt was answered 500 and left the session as
\* it was.
C31_Witness ==
    \E c \in Conns :
        /\ io[c].prompted
        /\ io[c].last_line = Some(L_b64_user)
        /\ Dispatched(c)
        /\ Answered(c, "500")
        /\ io[c].before[1].mail_from # None
        /\ session[c] = io[c].before

====
